---- MODULE Spec2Model ----
(***************************************************************************)
(* Model of the recommendation endpoints of src/server.js.                 *)
(*                                                                         *)
(* src/server.js holds two generations of the server one after the other,  *)
(* so it registers four handlers that call the generative service:         *)
(*   "recommendations1"  POST /recommendations  (lines 35-143)             *)
(*   "recommend1"        POST /recommend        (lines 217-297)            *)
(*   "recommendations2"  POST /recommendations  (lines 333-466)            *)
(*   "recommend2"        POST /recommend        (lines 540-626)            *)
(*                                                                         *)
(* A request runs through the handler in the steps the awaits cut it into: *)
(* entry up to the await of fetch, the fetch settling, and the body read up to *)
(* the response.                                                           *)
(*                                                                         *)
(* JavaScript values are records [t, v]: t is the typeof-like tag and v a  *)
(* sequence of string atoms (the pieces of a string, the items of an       *)
(* array, the numeral of a number).  An object is a function from Fields   *)
(* to values, "undefined" standing for a property that is not there.       *)
(***************************************************************************)
EXTENDS Integers, Sequences, FiniteSets, TLC

\* ------------------------------------------------------------------ bounds
MaxPlaces == 7      \* longest array the generative service returns
MaxCalls == 3       \* cap on outbound calls (only a retrying handler gets there)
MaxDays == 2        \* longest trip, in days
MaxInFlight == 2    \* recommendation requests the page has in flight at once
MaxSelections == 3  \* longest list of selected places of a day

\* ------------------------------------------------------- program constants
MinPlaces == 6      \* recommend2: places.length < 6 is rejected
ExactPlaces == 4    \* recommendations: places.length !== 4 is rejected
BaseLat == 129716   \* 12.9716, in 1e-4 degrees
BaseLng == 775946   \* 77.5946, in 1e-4 degrees

\* ---------------------------------------------------------------- values
Absent == [t |-> "undefined", v |-> <<>>]
Null == [t |-> "null", v |-> <<>>]
Str(s) == [t |-> "string", v |-> s]
Num(n) == [t |-> "number", v |-> <<n>>]
Arr(s) == [t |-> "array", v |-> s]

\* JavaScript truthiness: undefined, null, "" and 0 are falsy.
Falsy(x) ==
  \/ x.t \in {"undefined", "null"}
  \/ x.t = "string" /\ x.v = <<>>
  \/ x.t = "number" /\ x.v = <<"0">>

\* a || b
Or(a, b) == IF Falsy(a) THEN b ELSE a

Fields ==
  {"name", "description", "distance", "fare", "rating", "latitude",
   "longitude", "coordinates", "mapUrl", "distanceFromUser"}

NoFields == [k \in Fields |-> Absent]

\* Elements of a parsed array: an object, null, or a number.
Obj(f) == [kind |-> "object", f |-> f]
NullEl == [kind |-> "null", f |-> NoFields]
NumEl == [kind |-> "number", f |-> NoFields]

\* ------------------------------------------------------------------ text
\* The markdown fence marker, three backticks in a row, as one atom.
Fence == "<fence>"

\* The text the generative service returns is a sequence of tokens: the
\* lexical tokens (brackets, the fence marker, the json tag, newline, prose)
\* and JSON values.
Tok(s) == [tok |-> s, el |-> NullEl]
ElTok(e) == [tok |-> "value", el |-> e]

EmptyArrayText == <<Tok("["), Tok("]")>>

\* replace(/FENCE json|FENCE/g, "") on the atoms of one string, FENCE being
\* the three-backtick marker
RECURSIVE StripAtoms(_)
StripAtoms(s) ==
  IF s = <<>> THEN <<>>
  ELSE IF Head(s) = Fence
       THEN IF Len(s) >= 2 /\ s[2] = "json"
            THEN StripAtoms(SubSeq(s, 3, Len(s)))
            ELSE StripAtoms(Tail(s))
       ELSE <<Head(s)>> \o StripAtoms(Tail(s))

\* The regular expression runs over the whole text, string literals included.
StripEl(e) ==
  [e EXCEPT !.f = [k \in Fields |->
      IF e.f[k].t = "string" THEN Str(StripAtoms(e.f[k].v)) ELSE e.f[k]]]

RECURSIVE StripFences(_)
StripFences(text) ==
  IF text = <<>> THEN <<>>
  ELSE IF Head(text).tok = Fence
       THEN IF Len(text) >= 2 /\ text[2].tok = "json"
            THEN StripFences(SubSeq(text, 3, Len(text)))
            ELSE StripFences(Tail(text))
       ELSE IF Head(text).tok = "value"
            THEN <<ElTok(StripEl(Head(text).el))>> \o StripFences(Tail(text))
            ELSE <<Head(text)>> \o StripFences(Tail(text))

\* String.prototype.trim
RECURSIVE TrimLeft(_)
TrimLeft(text) ==
  IF text # <<>> /\ Head(text).tok = "\n" THEN TrimLeft(Tail(text)) ELSE text

RECURSIVE TrimRight(_)
TrimRight(text) ==
  IF text # <<>> /\ text[Len(text)].tok = "\n"
  THEN TrimRight(SubSeq(text, 1, Len(text) - 1))
  ELSE text

Trim(text) == TrimRight(TrimLeft(text))

\* JSON.parse: an array of values, a single value, or a SyntaxError.
\* Whitespace around the value is allowed; anything else is not.
JSONParse(text) ==
  LET t == Trim(text) IN
  IF /\ Len(t) >= 2
     /\ t[1].tok = "["
     /\ t[Len(t)].tok = "]"
     /\ \A i \in 2..(Len(t) - 1) : t[i].tok = "value"
  THEN [ok |-> TRUE, isArray |-> TRUE,
        elems |-> [i \in 1..(Len(t) - 2) |-> t[i + 1].el]]
  ELSE IF Len(t) = 1 /\ t[1].tok = "value"
       THEN [ok |-> TRUE, isArray |-> FALSE, elems |-> <<t[1].el>>]
       ELSE [ok |-> FALSE, isArray |-> FALSE, elems |-> <<>>]

\* ------------------------------------------------------------- responses
Places200(ps) == [status |-> 200, kind |-> "places", places |-> ps, error |-> <<>>]
Error(st, msg) == [status |-> st, kind |-> "error", places |-> <<>>, error |-> msg]
NoResponse == [status |-> 0, kind |-> "none", places |-> <<>>, error |-> <<>>]

\* What a handler step produced: the response and the message it logged.
Outcome(r, logged) == [res |-> r, err |-> logged]

\* ------------------------------------------------------------ enrichment
\* String(x), as template literals and encodeURIComponent apply it
ToStr(x) ==
  IF x.t = "undefined" THEN <<"undefined">>
  ELSE IF x.t = "null" THEN <<"null">>
  ELSE x.v

\* encodeURIComponent on one atom: words pass, a space and backticks are escaped
EncodeAtom(a) ==
  IF a = " " THEN "%20"
  ELSE IF a = Fence THEN "%60%60%60"
  ELSE a

encodeURIComponent(s) == [i \in 1..Len(s) |-> EncodeAtom(s[i])]

MapUrl(name, city) ==
  Str(<<"https://www.google.com/maps/search/">>
      \o encodeURIComponent(ToStr(name))
      \o <<"+">>
      \o encodeURIComponent(ToStr(city)))

\* Math.random(), in 1e-4 units: the j-th draw of stream r
RandVals == <<0, 5000, 9999>>
RandomStreams == 0..2
Random(r, j) == RandVals[((r + j) % 3) + 1]

\* base + (Math.random() * 0.2 - 0.1), in 1e-4 degrees
Jitter(base, draw) == base + ((draw * 2000) \div 10000) - 1000

\* a number of 1e-4 degrees written as a decimal
Decimal(n) ==
  LET frac == n % 10000 IN
  <<ToString(n \div 10000), ".">>
    \o (IF frac < 10 THEN <<"000">> ELSE IF frac < 100 THEN <<"00">>
        ELSE IF frac < 1000 THEN <<"0">> ELSE <<>>)
    \o <<ToString(frac)>>

Coordinates(lat, lng) == Str(Decimal(lat) \o <<",">> \o Decimal(lng))

\* { ...p, coordinates, mapUrl } for the i-th element (recommendations)
Enrich(p, city, r, i) ==
  Obj([p.f EXCEPT
    !["coordinates"] = Coordinates(Jitter(BaseLat, Random(r, 2 * i - 1)),
                                   Jitter(BaseLng, Random(r, 2 * i))),
    !["mapUrl"] = MapUrl(p.f["name"], city)])

\* the field defaults of recommend1
Defaults(p) ==
  Obj([NoFields EXCEPT
    !["name"] = Or(p.f["name"], Str(<<"Unknown">>)),
    !["description"] = Or(p.f["description"], Str(<<"No description">>)),
    !["distance"] = Or(p.f["distance"], Str(<<"?">>)),
    !["fare"] = Or(p.f["fare"], Str(<<"?">>)),
    !["rating"] = Or(p.f["rating"], Str(<<"?">>)),
    !["latitude"] = Or(p.f["latitude"], Num("0")),
    !["longitude"] = Or(p.f["longitude"], Num("0"))])

\* the fallback list of recommend1
FallbackPlaces ==
  << Obj([NoFields EXCEPT
       !["name"] = Str(<<"Lalbagh", " ", "Botanical", " ", "Garden">>),
       !["description"] = Str(<<"Famous botanical garden with diverse plant species and beautiful landscapes.">>),
       !["distance"] = Str(<<"3">>),
       !["fare"] = Str(<<"150">>),
       !["rating"] = Str(<<"4.5">>),
       !["latitude"] = Num("12.9507"),
       !["longitude"] = Num("77.5848")]),
     Obj([NoFields EXCEPT
       !["name"] = Str(<<"Cubbon", " ", "Park">>),
       !["description"] = Str(<<"Large public park perfect for walking and relaxation in the heart of the city.">>),
       !["distance"] = Str(<<"1">>),
       !["fare"] = Str(<<"100">>),
       !["rating"] = Str(<<"4.3">>),
       !["latitude"] = Num("12.9767"),
       !["longitude"] = Num("77.5928")]) >>

\* ------------------------------------------------------------ catch blocks
ServerError == <<"Server error">>
FailedToGenerate == <<"Failed to generate recommendations">>

\* catch (err) of /recommendations: log err.message, answer the fixed 500
CatchRecommendations(msg) == Outcome(Error(500, FailedToGenerate), msg)

\* catch (err) of recommend1
CatchRecommend1(msg) == Outcome(Error(500, ServerError), msg)

\* a catch block that answers with err.message, as /signup and /login do
CatchRecommend2Leaky(msg) == Outcome(Error(500, msg), msg)

\* catch (err) of recommend2
CatchRecommend2(msg) == Outcome(Error(500, FailedToGenerate), msg)

\* err.message of a non-successful upstream status
GeminiApiError(sep1, status, sep2, body) ==
  <<"Gemini API error", sep1, ToString(status), sep2>> \o body

\* ---------------------------------------------------------------- handlers
Variants == {"recommendations1", "recommend1", "recommendations2", "recommend2"}
RecommendVariants == {"recommend1", "recommend2"}
RecommendationsVariants == {"recommendations1", "recommendations2"}

\* What the synchronous head of a handler does: it answers at once (fetch
\* FALSE, out the response) or issues the outbound call with a key.
Answer(o) == [fetch |-> FALSE, key |-> Absent, out |-> o]
Fetch(k) == [fetch |-> TRUE, key |-> k, out |-> Outcome(NoResponse, <<>>)]

\* a destructuring default: x = [] when the property is undefined
DefaultArray(x) == IF x.t = "undefined" THEN Arr(<<>>) ELSE x

\* x.length === 0 (strings and arrays have a length)
LengthIsZero(x) == x.t \in {"string", "array"} /\ Len(x.v) = 0

\* the key literal recommend1 falls back to
HardcodedKey == Str(<<"key literal of recommend1">>)

\* !userLocation || typeof lat !== "number" || typeof lng !== "number"
BadUserLocation(u) ==
  \/ ~u.present
  \/ u.lat.t # "number"
  \/ u.lng.t # "number"

\* POST /recommendations, first generation, up to the await of fetch
Recommendations1Entry(body, key) ==
  IF Falsy(body.city) \/ Falsy(body.vibe)
  THEN Answer(Outcome(Error(400, <<"City and vibe are required.">>), <<>>))
  ELSE IF DefaultArray(body.visited).t # "array"
       THEN Answer(CatchRecommendations(<<"visited.join is not a function">>))
       ELSE Fetch(key)

\* POST /recommendations, second generation, up to the await of fetch
Recommendations2Entry(body, key) ==
  IF Falsy(body.city) \/ Falsy(body.vibe)
  THEN Answer(Outcome(Error(400, <<"City and vibe are required.">>), <<>>))
  ELSE IF BadUserLocation(body.userLocation)
       THEN Answer(Outcome(Error(400, <<"User current location is required.">>), <<>>))
       ELSE IF DefaultArray(body.visited).t # "array"
            THEN Answer(CatchRecommendations(<<"visited.join is not a function">>))
            ELSE Fetch(key)

\* the validation of recommend1 without its length test
Recommend1InvalidNoLength(body) ==
  Falsy(body.city) \/ Falsy(DefaultArray(body.vibes))

\* !city || !vibes || vibes.length === 0
Recommend1Invalid(body) ==
  LET vibes == DefaultArray(body.vibes) IN
  Falsy(body.city) \/ Falsy(vibes) \/ LengthIsZero(vibes)

\* POST /recommend, first generation, up to the await of fetch
Recommend1Entry(body, key) ==
  IF Recommend1Invalid(body)
  THEN Answer(Outcome(Error(400, <<"City and vibes are required">>), <<>>))
  ELSE IF DefaultArray(body.vibes).t # "array"
       THEN Answer(CatchRecommend1(<<"vibes.join is not a function">>))
       ELSE Fetch(Or(key, HardcodedKey))

\* !city || !Array.isArray(vibes) || vibes.length === 0
Recommend2Invalid(body) ==
  LET vibes == DefaultArray(body.vibes) IN
  Falsy(body.city) \/ vibes.t # "array" \/ LengthIsZero(vibes)

\* POST /recommend, second generation, up to the await of fetch
Recommend2Entry(body, key) ==
  IF Recommend2Invalid(body)
  THEN Answer(Outcome(Error(400, <<"City and vibes are required">>), <<>>))
  ELSE IF Falsy(key)
       THEN Answer(CatchRecommend2(<<"Missing GEMINI_API_KEY">>))
       ELSE Fetch(key)

Entry(v, body, key) ==
  CASE v = "recommendations1" -> Recommendations1Entry(body, key)
    [] v = "recommend1" -> Recommend1Entry(body, key)
    [] v = "recommendations2" -> Recommendations2Entry(body, key)
    [] v = "recommend2" -> Recommend2Entry(body, key)

\* the catch block a throw inside handler v lands in
Catch(v, msg) ==
  CASE v \in RecommendationsVariants -> CatchRecommendations(msg)
    [] v = "recommend1" -> CatchRecommend1(msg)
    [] v = "recommend2" -> CatchRecommend2(msg)

HasNull(elems) == \E i \in 1..Len(elems) : elems[i].kind = "null"

\* POST /recommendations (both generations) from the settled fetch on.
\* getDistanceKm is declared in the second generation but has no call site.
RecommendationsFinish(body, up, r) ==
  IF ~up.bodyOk THEN CatchRecommendations(<<"body stream failed">>)
  ELSE IF ~up.ok
  THEN CatchRecommendations(GeminiApiError(" ", up.status, ": ", up.body))
  ELSE IF ~up.hasText \/ up.text = <<>>
  THEN CatchRecommendations(<<"Empty Gemini response">>)
  ELSE LET parsed == JSONParse(up.text) IN
    IF ~parsed.ok
    THEN CatchRecommendations(<<"Gemini returned invalid JSON">>)
    ELSE IF ~parsed.isArray \/ Len(parsed.elems) # ExactPlaces
    THEN CatchRecommendations(<<"Gemini did not return exactly 4 places">>)
    ELSE IF HasNull(parsed.elems)
    THEN CatchRecommendations(<<"Cannot read properties of null (reading 'name')">>)
    ELSE Outcome(Places200([i \in 1..Len(parsed.elems) |->
                   Enrich(parsed.elems[i], body.city, r, i)]), <<>>)

\* POST /recommend, first generation, from the settled fetch on
Recommend1Finish(up) ==
  IF ~up.bodyOk THEN CatchRecommend1(<<"body stream failed">>)
  ELSE IF ~up.ok
  THEN CatchRecommend1(GeminiApiError(": ", up.status, " - ", up.body))
  ELSE LET textResponse ==
             Trim(StripFences(IF up.hasText /\ up.text # <<>>
                              THEN up.text ELSE EmptyArrayText))
           parsed == JSONParse(textResponse)
           thrown == ~parsed.ok \/ ~parsed.isArray \/ HasNull(parsed.elems)
       IN IF thrown
          THEN Outcome(Places200(FallbackPlaces), <<"JSON parse error">>)
          ELSE Outcome(Places200([i \in 1..Len(parsed.elems) |->
                         Defaults(parsed.elems[i])]), <<>>)

\* POST /recommend, second generation, from the settled fetch on
Recommend2Finish(up) ==
  IF ~up.bodyOk THEN CatchRecommend2(<<"body stream failed">>)
  ELSE IF ~up.ok
  THEN CatchRecommend2(GeminiApiError(" ", up.status, ": ", up.body))
  ELSE IF ~up.hasText \/ up.text = <<>>
  THEN CatchRecommend2(<<"Empty Gemini response">>)
  ELSE LET parsed == JSONParse(up.text) IN
    IF ~parsed.ok
    THEN CatchRecommend2(<<"Gemini returned malformed JSON">>)
    ELSE IF ~parsed.isArray \/ Len(parsed.elems) < MinPlaces
    THEN CatchRecommend2(<<"Gemini returned insufficient places">>)
    ELSE Outcome(Places200(parsed.elems), <<>>)

Finish(v, body, up, r) ==
  CASE v \in RecommendationsVariants -> RecommendationsFinish(body, up, r)
    [] v = "recommend1" -> Recommend1Finish(up)
    [] v = "recommend2" -> Recommend2Finish(up)

\* ------------------------------------------------------------------ inputs
\* request bodies
Cities == {Absent, Str(<<>>), Str(<<"Bengaluru">>), Str(<<"New", " ", "Delhi">>)}
VibesValues ==
  {Absent, Null, Arr(<<>>), Arr(<<"Nature">>), Arr(<<"Nature", "Foodie">>),
   Str(<<"Nature">>)}
VibeValues == {Absent, Str(<<"Nature">>)}
VisitedValues == {Absent, Arr(<<"Cubbon Park">>), Str(<<"Cubbon Park">>)}
NoUserLocation == [present |-> FALSE, lat |-> Absent, lng |-> Absent]
UserLocation(la, ln) == [present |-> TRUE, lat |-> la, lng |-> ln]
UserLocations ==
  {NoUserLocation,
   UserLocation(Num("12.9716"), Num("77.5946")),
   UserLocation(Str(<<"12.9716">>), Num("77.5946"))}

Bodies(v) ==
  IF v \in RecommendVariants
  THEN [city : Cities, vibes : VibesValues, vibe : {Absent},
        visited : {Absent},
        userLocation : {NoUserLocation,
                        UserLocation(Num("12.9716"), Num("77.5946"))}]
  ELSE [city : Cities, vibes : {Absent}, vibe : VibeValues,
        visited : VisitedValues, userLocation : UserLocations]

NoBody ==
  [city |-> Absent, vibes |-> Absent, vibe |-> Absent, visited |-> Absent,
   userLocation |-> NoUserLocation]

\* process.env.GEMINI_API_KEY
ApiKeys == {Absent, Str(<<"configured key">>)}

\* array elements the generative service may return
WellFormed(i) ==
  Obj([NoFields EXCEPT
    !["name"] = Str(<<"Place", " ", ToString(i)>>),
    !["description"] = Str(<<"A place to see">>),
    !["distance"] = Num("3"),
    !["fare"] = Num("150"),
    !["rating"] = Num("4.5"),
    !["latitude"] = Num("12.9507"),
    !["longitude"] = Num("77.5848")])

ElemKinds ==
  {"wellFormed", "noRating", "zeroRating", "noName", "badLatitude",
   "fencedName", "null", "number"}

Element(kind, i) ==
  LET w == WellFormed(i) IN
  CASE kind = "wellFormed" -> w
    [] kind = "noRating" -> Obj([w.f EXCEPT !["rating"] = Absent])
    [] kind = "zeroRating" ->
         Obj([w.f EXCEPT !["rating"] = Num("0"), !["fare"] = Num("0")])
    [] kind = "noName" ->
         Obj([w.f EXCEPT !["name"] = Absent, !["description"] = Absent])
    [] kind = "badLatitude" ->
         Obj([w.f EXCEPT !["latitude"] = Str(<<"north">>),
                         !["longitude"] = Absent])
    [] kind = "fencedName" ->
         Obj([w.f EXCEPT
           !["name"] = Str(<<Fence, "json", "Cafe", " ", ToString(i), Fence>>)])
    [] kind = "null" -> NullEl
    [] kind = "number" -> NumEl

\* the text of an array of n elements, the one at pos of the given kind
ArrayText(n, kind, pos) ==
  <<Tok("[")>>
    \o [i \in 1..n |->
          ElTok(IF i = pos THEN Element(kind, i) ELSE WellFormed(i))]
    \o <<Tok("]")>>

ArrayTexts ==
  UNION {{ArrayText(n, k, pos) : k \in ElemKinds, pos \in {1, n}} :
           n \in 0..MaxPlaces}

\* text that is not a JSON array: a lone object, prose, an array cut short,
\* and the empty string
OtherTexts ==
  {<<ElTok(WellFormed(1))>>,
   <<Tok("Here are some places")>>,
   <<Tok("["), ElTok(WellFormed(1))>>,
   <<>>}

\* T inside a markdown fence, with or without the json tag
WrapJson(text) ==
  <<Tok(Fence), Tok("json"), Tok("\n")>> \o text \o <<Tok("\n"), Tok(Fence)>>
WrapPlain(text) ==
  <<Tok(Fence), Tok("\n")>> \o text \o <<Tok("\n"), Tok(Fence)>>

Texts ==
  ArrayTexts \cup OtherTexts
    \cup {WrapJson(t) : t \in ArrayTexts} \cup {WrapPlain(t) : t \in ArrayTexts}

\* what the fetch resolves to
NoUpstream ==
  [ok |-> FALSE, status |-> 0, bodyOk |-> FALSE, body |-> <<>>,
   hasText |-> FALSE, text |-> <<>>]

UpstreamResponses ==
  [ok : {FALSE}, status : {429, 503}, bodyOk : {TRUE},
   body : {<<"quota exceeded">>, <<"API key not valid">>},
   hasText : {FALSE}, text : {<<>>}]
  \cup [ok : {FALSE, TRUE}, status : {200}, bodyOk : {FALSE}, body : {<<>>},
        hasText : {FALSE}, text : {<<>>}]
  \cup [ok : {TRUE}, status : {200}, bodyOk : {TRUE}, body : {<<>>},
        hasText : {FALSE}, text : {<<>>}]
  \cup [ok : {TRUE}, status : {200}, bodyOk : {TRUE}, body : {<<>>},
        hasText : {TRUE}, text : Texts]

\* ------------------------------------------------------------------- state
VARIABLES
  apiKey,    \* process.env.GEMINI_API_KEY, fixed at startup
  pc,        \* where the request stands: idle, awaitFetch, awaitBody, done
  variant,   \* the handler serving the request
  req,       \* req.body
  calls,     \* outbound calls to the generative service made for the request
  keySent,   \* the key the outbound call carried
  up,        \* the upstream response, once the fetch has resolved
  rnd,       \* the Math.random stream the enrichment drew from
  sent,      \* responses sent for the request
  res,       \* the response
  logged,    \* what console.error printed
  \* the page (src/unnamed/part_000)
  tripData,          \* { city, start, end }: the city and the number of days
  dayCounter,        \* the let binding of generateDays the card handlers close over
  dayCards,          \* the day cards in #daysContainer; card k shows the k-th date
  heading,           \* the heading of #dayPlanContainer: Day dayNum, date of a card
  currentDay,        \* 0 stands for null
  currentVibe,       \* "null" stands for null
  allDaySelections,  \* dayNumber -> selected places
  visitedPlaces,     \* the names set to true
  recommendations,   \* the content of the current #recommendations element
  pending,           \* fetchVibePlaces calls awaiting their response
  lastBody,          \* the body of the last request to /recommend
  savedSummary       \* the text of #savedSummary

serverVars ==
  <<apiKey, pc, variant, req, calls, keySent, up, rnd, sent, res, logged>>

uiVars ==
  <<tripData, dayCounter, dayCards, heading, currentDay, currentVibe,
    allDaySelections, visitedPlaces, recommendations, pending, lastBody,
    savedSummary>>

vars ==
  <<apiKey, pc, variant, req, calls, keySent, up, rnd, sent, res, logged,
    tripData, dayCounter, dayCards, heading, currentDay, currentVibe,
    allDaySelections, visitedPlaces, recommendations, pending, lastBody,
    savedSummary>>

\* ---------------------------------------------------------- the page: data
\* the vibe buttons renderVibes creates
VibeList ==
  <<"Historic", "Foodie", "Beach", "Nature", "Art & Culture", "Shopping",
    "Nightlife", "Wellness">>

\* the buttons the user clicks here
ClickedVibes == {VibeList[1], VibeList[2]}

\* a request in flight: the vibe it asked for, and whether the
\* #recommendations element it holds is still the one in the document
PendingKinds == [vibe : ClickedVibes, attached : BOOLEAN]

NoPending == [k \in PendingKinds |-> 0]

RECURSIVE SumPending(_, _)
SumPending(f, ks) ==
  IF ks = {} THEN 0
  ELSE LET k == CHOOSE x \in ks : TRUE IN f[k] + SumPending(f, ks \ {k})

InFlightCount(f) == SumPending(f, PendingKinds)

\* what a request to /recommend comes back with: an array of places (a place
\* is known by its name), a JSON value that is no array, or a failure of
\* fetch or of response.json()
PlaceLists ==
  {<<>>, <<"Cubbon Park">>, <<"Lalbagh">>, <<"Cubbon Park", "Lalbagh">>}

Replies ==
  [kind : {"array"}, places : PlaceLists]
    \cup [kind : {"object", "rejected"}, places : {<<>>}]

\* the positions a place card can have in #recommendations
CardPositions == UNION {DOMAIN places : places \in PlaceLists}

\* the content of a #recommendations element
NoElement == [kind |-> "none", vibe |-> "null", cards |-> <<>>]
EmptyElement == [kind |-> "empty", vibe |-> "null", cards |-> <<>>]
Loading(vibe) == [kind |-> "loading", vibe |-> vibe, cards |-> <<>>]
InvalidResponse(vibe) == [kind |-> "invalid", vibe |-> vibe, cards |-> <<>>]
FailedToFetch(vibe) == [kind |-> "failed", vibe |-> vibe, cards |-> <<>>]
PlaceCards(vibe, places) ==
  [kind |-> "cards", vibe |-> vibe,
   cards |-> [i \in 1..Len(places) |-> [name |-> places[i], disabled |-> FALSE]]]

\* JSON body of the request fetchVibePlaces sends
RequestBody(city, vibe) == [city |-> city, vibes |-> <<vibe>>]
NoRequestBody == [city |-> "", vibes |-> <<>>]

NoHeading == [dayNum |-> 0, card |-> 0]

\* the for loop of generateDays over the dates d..end: the value dayCounter
\* is left with
RECURSIVE generateDays(_, _, _)
generateDays(d, end, counter) ==
  IF d <= end THEN generateDays(d + 1, end, counter + 1) ELSE counter

\* updateSavedSummary: the count of the current day, 0 for "No places saved yet"
SummaryText(day, selections) ==
  [day |-> IF Len(selections[day]) > 0 THEN day ELSE 0,
   count |-> Len(selections[day])]

UIInit ==
  /\ tripData = [city |-> "", days |-> 0]
  /\ dayCounter = 0
  /\ dayCards = 0
  /\ heading = NoHeading
  /\ currentDay = 0
  /\ currentVibe = "null"
  /\ allDaySelections = <<>>
  /\ visitedPlaces = {}
  /\ recommendations = NoElement
  /\ pending = NoPending
  /\ lastBody = NoRequestBody
  /\ savedSummary = [day |-> 0, count |-> 0]

Init ==
  /\ apiKey \in ApiKeys
  /\ pc = "idle"
  /\ variant = "recommend1"
  /\ req = NoBody
  /\ calls = 0
  /\ keySent = Absent
  /\ up = NoUpstream
  /\ rnd = 0
  /\ sent = 0
  /\ res = NoResponse
  /\ logged = <<>>
  /\ UIInit

\* A request arrives at handler v: the handler runs to its first await.
Request(v, body) ==
  /\ pc = "idle"
  /\ variant' = v
  /\ req' = body
  /\ up' = NoUpstream
  /\ rnd' = 0
  /\ LET e == Entry(v, body, apiKey) IN
       IF e.fetch
       THEN /\ pc' = "awaitFetch"
            /\ calls' = 1
            /\ keySent' = e.key
            /\ sent' = 0
            /\ res' = NoResponse
            /\ logged' = <<>>
       ELSE /\ pc' = "done"
            /\ calls' = 0
            /\ keySent' = Absent
            /\ sent' = 1
            /\ res' = e.out.res
            /\ logged' = e.out.err
  /\ UNCHANGED apiKey
  /\ UNCHANGED uiVars

\* a handler that calls the service again when the fetch rejects
FetchRejectsRetry ==
  /\ pc = "awaitFetch"
  /\ calls < MaxCalls
  /\ calls' = calls + 1
  /\ UNCHANGED <<apiKey, pc, variant, req, keySent, up, rnd, sent, res, logged>>
  /\ UNCHANGED uiVars

\* fetch rejects (network failure): the catch block answers.
FetchRejects ==
  /\ pc = "awaitFetch"
  /\ LET o == Catch(variant, <<"fetch failed">>) IN
       /\ res' = o.res
       /\ logged' = o.err
  /\ sent' = sent + 1
  /\ pc' = "done"
  /\ UNCHANGED <<apiKey, variant, req, calls, keySent, up, rnd>>
  /\ UNCHANGED uiVars

\* fetch resolves with a response; the handler awaits its body.
FetchResolves(r) ==
  /\ pc = "awaitFetch"
  /\ up' = r
  /\ pc' = "awaitBody"
  /\ UNCHANGED <<apiKey, variant, req, calls, keySent, rnd, sent, res, logged>>
  /\ UNCHANGED uiVars

\* the body settles: the handler runs to its response.
BodyResolves ==
  /\ pc = "awaitBody"
  /\ \E r \in RandomStreams :
       LET o == Finish(variant, req, up, r) IN
         /\ res' = o.res
         /\ logged' = o.err
         /\ rnd' = IF variant \in RecommendationsVariants /\ o.res.status = 200
                   THEN r ELSE 0
  /\ sent' = sent + 1
  /\ pc' = "done"
  /\ UNCHANGED <<apiKey, variant, req, calls, keySent, up>>
  /\ UNCHANGED uiVars

\* The handler has returned: everything it held was request-scoped.
Return ==
  /\ pc = "done"
  /\ pc' = "idle"
  /\ variant' = "recommend1"
  /\ req' = NoBody
  /\ calls' = 0
  /\ keySent' = Absent
  /\ up' = NoUpstream
  /\ rnd' = 0
  /\ sent' = 0
  /\ res' = NoResponse
  /\ logged' = <<>>
  /\ UNCHANGED apiKey
  /\ UNCHANGED uiVars

Next ==
  \/ \E v \in Variants : \E body \in Bodies(v) : Request(v, body)
  \/ FetchRejects
  \/ \E r \in UpstreamResponses : FetchResolves(r)
  \/ BodyResolves
  \/ Return

Spec == Init /\ [][Next]_vars

\* --------------------------------------------------------- the page: events
\* Plan My Day: the click handler of planBtn with valid inputs (with an empty
\* city or start > end it alerts and returns, changing nothing).  The handler
\* hides tripBox, so it runs once.
PlanClick(city, days) ==
  /\ tripData.days = 0
  /\ city # ""
  /\ days >= 1
  /\ tripData' = [city |-> city, days |-> days]
  /\ visitedPlaces' = {}
  /\ allDaySelections' = <<>>
  /\ dayCards' = days
  /\ dayCounter' = generateDays(1, days, 1)
  /\ UNCHANGED <<heading, currentDay, currentVibe, recommendations, pending,
                 lastBody, savedSummary>>
  /\ UNCHANGED serverVars

\* selectDay(dayNum, dayName, dateStr)
selectDay(dayNum, card) ==
  LET selections ==
        IF dayNum \in DOMAIN allDaySelections
        THEN allDaySelections
        ELSE allDaySelections @@ (dayNum :> <<>>)
  IN
  /\ currentDay' = dayNum
  /\ currentVibe' = "null"
  /\ allDaySelections' = selections
  /\ heading' = [dayNum |-> dayNum, card |-> card]
  /\ recommendations' = EmptyElement
  /\ pending' = [k \in PendingKinds |->
                   IF k.attached THEN 0
                   ELSE pending[k] + pending[[k EXCEPT !.attached = TRUE]]]
  /\ savedSummary' = SummaryText(dayNum, selections)

\* a click on the k-th day card: its handler reads dayCounter when it runs
DayCardClick(k) ==
  /\ k \in 1..dayCards
  /\ selectDay(dayCounter, k)
  /\ UNCHANGED <<tripData, dayCounter, dayCards, visitedPlaces, lastBody>>
  /\ UNCHANGED serverVars

\* a click on a vibe button: currentVibe = vibe, then fetchVibePlaces(vibe)
\* up to its await
VibeClick(vibe) ==
  /\ heading # NoHeading
  /\ InFlightCount(pending) < MaxInFlight
  /\ currentVibe' = vibe
  /\ recommendations' = Loading(vibe)
  /\ lastBody' = RequestBody(tripData.city, vibe)
  /\ pending' =
       [pending EXCEPT ![[vibe |-> vibe, attached |-> TRUE]] = @ + 1]
  /\ UNCHANGED <<tripData, dayCounter, dayCards, heading, currentDay,
                 allDaySelections, visitedPlaces, savedSummary>>
  /\ UNCHANGED serverVars

\* what fetchVibePlaces(vibe) writes into the element it holds once the
\* response is there
Rendered(vibe, reply) ==
  CASE reply.kind = "rejected" -> FailedToFetch(vibe)
    [] reply.kind = "object" -> InvalidResponse(vibe)
    [] reply.kind = "array" -> PlaceCards(vibe, reply.places)

\* fetchVibePlaces from its awaits on: the response of one request arrives
ResponseArrives(k, reply) ==
  /\ pending[k] > 0
  /\ pending' = [pending EXCEPT ![k] = @ - 1]
  /\ recommendations' =
       IF k.attached THEN Rendered(k.vibe, reply) ELSE recommendations
  /\ UNCHANGED <<tripData, dayCounter, dayCards, heading, currentDay,
                 currentVibe, allDaySelections, visitedPlaces, lastBody,
                 savedSummary>>
  /\ UNCHANGED serverVars

\* a click on the Select button of the i-th place card
SelectClick(i) ==
  /\ recommendations.kind = "cards"
  /\ i \in 1..Len(recommendations.cards)
  /\ ~recommendations.cards[i].disabled
  /\ Len(allDaySelections[currentDay]) < MaxSelections
  /\ LET selections ==
           [allDaySelections EXCEPT
              ![currentDay] = Append(@, recommendations.cards[i].name)]
     IN /\ allDaySelections' = selections
        /\ savedSummary' = SummaryText(currentDay, selections)
  /\ visitedPlaces' = visitedPlaces \cup {recommendations.cards[i].name}
  /\ recommendations' =
       [recommendations EXCEPT !.cards[i].disabled = TRUE]
  /\ UNCHANGED <<tripData, dayCounter, dayCards, heading, currentDay,
                 currentVibe, pending, lastBody>>
  /\ UNCHANGED serverVars

NextUI ==
  \/ \E days \in 1..MaxDays : PlanClick("Bengaluru", days)
  \/ \E k \in 1..MaxDays : DayCardClick(k)
  \/ \E vibe \in ClickedVibes : VibeClick(vibe)
  \/ \E k \in PendingKinds : \E reply \in Replies : ResponseArrives(k, reply)
  \/ \E i \in CardPositions : SelectClick(i)

SpecUI == Init /\ [][NextUI]_vars

\* ------------------------------------------------------------------ claims
Answered == pc = "done"
InFlight == pc \in {"awaitFetch", "awaitBody"}

\* the service answered with a successful status and a text payload
GotText == up.ok /\ up.bodyOk /\ up.hasText

\* city missing or empty, or vibes missing or an empty list
CityOrVibesMissing(body) ==
  \/ body.city \in {Absent, Str(<<>>)}
  \/ body.vibes \in {Absent, Arr(<<>>)}

\* C1: a request to POST /recommend (either generation) whose city is missing
\* or empty, or whose vibes is missing or an empty list, is answered with
\* HTTP 400, and at no point of the request is an outbound call made.
C1_RejectedBeforeAnyCall ==
  (pc # "idle" /\ variant \in RecommendVariants /\ CityOrVibesMissing(req))
    => (Answered /\ sent = 1 /\ res.status = 400 /\ calls = 0)

\* POST /recommend {city: "Bengaluru", vibes: []} was served by recommend1
C1_Witness ==
  /\ Answered
  /\ variant = "recommend1"
  /\ req.city = Str(<<"Bengaluru">>)
  /\ req.vibes = Arr(<<>>)
  /\ res.status = 400
  /\ calls = 0

\* the text is a JSON array as it stands
IsArrayText(text) == JSONParse(text).ok /\ JSONParse(text).isArray

\* the array the service returned
UpstreamArray == JSONParse(up.text).elems

\* the cardinality policy of the endpoint: at least 6, or exactly 4
MeetsCardinality(v, n) ==
  IF v \in RecommendVariants THEN n >= MinPlaces ELSE n = ExactPlaces

\* C2: when the service returns a well-formed JSON array with fewer elements
\* than the endpoint's cardinality policy requires (fewer than 6 for
\* /recommend, other than 4 for /recommendations), the response is the fixed
\* fallback list or an HTTP 500, never an HTTP 200 carrying the short list;
\* in every handler.
C2_NoShortList ==
  (Answered /\ GotText /\ IsArrayText(up.text)
     /\ ~MeetsCardinality(variant, Len(UpstreamArray)))
    => (res.status = 500 \/ (res.status = 200 /\ res.places = FallbackPlaces))

\* C3: whatever fails upstream or in normalization (fetch throwing, a
\* non-successful status, absent text, a parse failure, a non-array value, a
\* null or non-object element, a cardinality violation), the handler sends
\* exactly one response and the exception does not escape; a 500 response
\* carries a fixed error string that does not depend on the upstream status,
\* the upstream body or the exception message.
C3_OneGenericResponse ==
  /\ sent <= 1
  /\ InFlight => sent = 0
  /\ Answered => (sent = 1 /\ res.status \in {200, 400, 500})
  /\ res.status = 500 =>
       /\ res.kind = "error"
       /\ res.error =
            (IF variant = "recommend1" THEN ServerError ELSE FailedToGenerate)

\* recommend2 answered an upstream 429 with the generic 500
C3_Witness ==
  /\ Answered
  /\ variant = "recommend2"
  /\ ~up.ok
  /\ up.status = 429
  /\ up.body = <<"API key not valid">>
  /\ res.status = 500
  /\ sent = 1

\* C4: when the call succeeds but the envelope has no text at
\* candidates[0].content.parts[0].text, the endpoint answers with the generic
\* HTTP 500 and never with HTTP 200; in every handler.
C4_EmptyEnvelopeFails ==
  (Answered /\ up.ok /\ up.bodyOk /\ ~up.hasText) => res.status = 500

\* C5: with no API key configured, every handler that calls the service
\* fails before any outbound call: no fetch goes out with an absent key and
\* none with a substitute key.
C5_NoCallWithoutKey ==
  Falsy(apiKey) => calls = 0

\* C6: a request to /recommend or /recommendations makes at most one
\* outbound call to the generative service over its whole lifetime, on every
\* path; there is no retry.
C6_AtMostOneCall ==
  calls <= 1

\* a request whose fetch was rejected was answered after a single call
C6_Witness ==
  /\ Answered
  /\ calls = 1
  /\ up = NoUpstream
  /\ res.status = 500

\* C7: for an upstream text T that is a JSON array, /recommend answers T
\* wrapped in a markdown fence (with or without the json tag) as it answers T,
\* and stripping fences from T itself leaves the parsed value as it was,
\* string values containing the fence marker included; in both generations.
C7_FencesLossless ==
  (Answered /\ variant \in RecommendVariants /\ GotText /\ IsArrayText(up.text))
    => /\ Finish(variant, req, [up EXCEPT !.text = WrapJson(up.text)], rnd).res = res
       /\ Finish(variant, req, [up EXCEPT !.text = WrapPlain(up.text)], rnd).res = res
       /\ JSONParse(Trim(StripFences(up.text))) = JSONParse(up.text)

\* the element the defaults rule of the normalizer yields for p
Normalized(p, k) ==
  LET x == p.f[k] IN
  CASE k = "name" -> IF x = Absent THEN Str(<<"Unknown">>) ELSE x
    [] k = "description" -> IF x = Absent THEN Str(<<"No description">>) ELSE x
    [] k \in {"distance", "fare", "rating"} ->
         IF x = Absent THEN Str(<<"?">>) ELSE x
    [] k \in {"latitude", "longitude"} ->
         IF x.t # "number" THEN Num("0") ELSE x

PlaceFields ==
  {"name", "description", "distance", "fare", "rating", "latitude", "longitude"}

\* C8: in a 200 response of /recommend, the element for each upstream
\* element has name "Unknown" if name was absent, description
\* "No description" if absent, distance, fare and rating "?" if absent,
\* latitude and longitude 0 if absent or not a number; a field that is there
\* and conforming (a numeric 0 rating or fare too) passes unchanged; in both
\* generations.
C8_FieldDefaults ==
  (Answered /\ variant \in RecommendVariants /\ GotText /\ IsArrayText(up.text)
     /\ res.status = 200 /\ Len(res.places) = Len(UpstreamArray))
    => \A i \in 1..Len(UpstreamArray) :
         UpstreamArray[i].kind = "object" =>
           \A k \in PlaceFields :
             res.places[i].f[k] = Normalized(UpstreamArray[i], k)

\* every element is an object with the fields of the target shape
WellFormedArray(elems) ==
  \A i \in 1..Len(elems) :
    /\ elems[i].kind = "object"
    /\ elems[i].f["name"].t = "string"
    /\ elems[i].f["description"].t = "string"

\* C9: when the service returns a well-formed array that meets the
\* cardinality policy, the HTTP 200 body has as many elements as the upstream
\* array, in the same order, each with a non-null coordinates string and a
\* non-null mapUrl built from the place name and the request's city; for
\* /recommend (both generations) and /recommendations.
C9_Enriched ==
  (Answered /\ GotText /\ IsArrayText(up.text) /\ WellFormedArray(UpstreamArray)
     /\ MeetsCardinality(variant, Len(UpstreamArray)))
    => /\ res.status = 200
       /\ Len(res.places) = Len(UpstreamArray)
       /\ \A i \in 1..Len(UpstreamArray) :
            /\ res.places[i].f["name"] = UpstreamArray[i].f["name"]
            /\ res.places[i].f["coordinates"].t = "string"
            /\ res.places[i].f["mapUrl"] =
                 MapUrl(res.places[i].f["name"], req.city)

\* C10: in a 200 response every place carries a distance-from-user field if
\* and only if the request supplied a userLocation; in particular every place
\* /recommendations of the second generation returns has the distance
\* getDistanceKm computes attached.  (The value presupposes the field.)
C10_DistanceIffUserLocation ==
  (Answered /\ res.status = 200)
    => \A i \in 1..Len(res.places) :
         (res.places[i].f["distanceFromUser"] # Absent) <=> req.userLocation.present

\* ------------------------------------------------------ claims on the page
\* C11: once generateDays has built the cards of a trip of N days, a click
\* on the k-th day card (1 <= k <= N) calls selectDay with dayNum = k:
\* currentDay is k and what is selected afterwards goes to
\* allDaySelections[k], so that selections made after clicks on two
\* different cards never share a day number.
C11_CardSelectsItsDay ==
  heading # NoHeading =>
    /\ heading.dayNum = heading.card
    /\ currentDay = heading.card
    /\ DOMAIN allDaySelections \subseteq 1..dayCards

\* C12: when vibe button A and then vibe button B are clicked on the same
\* day while the request of A is in flight, then, whatever order the two
\* responses come in, once both are there #recommendations shows what came
\* back for B, the value of currentVibe, never what came back for A.
C12_LastClickedVibeShown ==
  (currentVibe # "null" /\ InFlightCount(pending) = 0)
    => recommendations.vibe = currentVibe

\* C13: after any sequence of day clicks, vibe clicks, responses and Select
\* clicks, no list allDaySelections[d] holds two entries with the same place
\* name: a place once selected (visitedPlaces[name] = true) is not selected
\* again nor counted twice in the saved summary.
C13_NoPlaceSelectedTwice ==
  \A d \in DOMAIN allDaySelections :
    \A i, j \in 1..Len(allDaySelections[d]) :
      i # j => allDaySelections[d][i] # allDaySelections[d][j]

====
